---- MODULE Spec2Model ----
(***************************************************************************)
(* Model of the megaproblem editor's document pipeline                     *)
(* (src/src/utils/problemParser.ts): parseProblem, validateProblem,        *)
(* formatXmlPreserveInline and countQuestions, driven the way App.tsx      *)
(* drives them (parse + validate on every change of the text, Format       *)
(* replacing the text by its formatted form).                              *)
(*                                                                         *)
(* A string of markup is a sequence of tokens: a start tag with its raw    *)
(* attribute values, an end tag, a comment, or a run of character data.    *)
(* Two runs never stand side by side (a ++ b joins them), so that two      *)
(* strings are equal exactly when their token sequences are.  Character    *)
(* data is a sequence of units: "a", "b", ... (runs of ordinary            *)
(* characters), " " and "\n" (white space), "&" and "<" (the two markup    *)
(* characters) and "lt;" / "amp;" (the characters that, after "&", spell   *)
(* an entity reference).  Text values held by the DOM and by the parsed    *)
(* model are sequences of decoded units.                                   *)
(***************************************************************************)
EXTENDS Integers, Sequences, FiniteSets, TLC

VARIABLES
    xmlContent,          \* App.tsx:52 the raw text in the editor
    pc,                  \* position of the parse effect / pipeline
    children,            \* parseProblem: Array.from(problemEl.children)
    i,                   \* parseProblem: loop index (0-based)
    blocks,              \* parseProblem: blocks
    introHtml,           \* parseProblem: introHtml
    foundFirstQuestion,  \* parseProblem: foundFirstQuestion
    metadata,            \* parseProblem: metadata
    parsedProblem,       \* App.tsx:53
    parseError,          \* App.tsx:54
    validationErrors,    \* App.tsx:55
    visited,             \* history: 0-based child positions the loop visited on their own
    inputWellFormed,     \* history: whether the text first put in the editor is well-formed
    formatPressed,       \* history: whether Format has been pressed on the current text
    history              \* history: one record per completed run of the effect

vars == <<xmlContent, pc, children, i, blocks, introHtml, foundFirstQuestion,
          metadata, parsedProblem, parseError, validationErrors,
          visited, inputWellFormed, formatPressed, history>>

NULL == [null |-> TRUE]

-----------------------------------------------------------------------------
(* Strings *)

IsSpace(c) == c \in {" ", "\n"}

RECURSIVE TrimStart(_)
TrimStart(s) ==
    IF s = <<>> THEN <<>>
    ELSE IF IsSpace(Head(s)) THEN TrimStart(Tail(s)) ELSE s

RECURSIVE TrimEnd(_)
TrimEnd(s) ==
    IF s = <<>> THEN <<>>
    ELSE IF IsSpace(s[Len(s)]) THEN TrimEnd(SubSeq(s, 1, Len(s) - 1)) ELSE s

\* String.prototype.trim
Trim(s) == TrimEnd(TrimStart(s))

RECURSIVE Concat(_)
Concat(ss) == IF ss = <<>> THEN <<>> ELSE Head(ss) \o Concat(Tail(ss))

RECURSIVE Join(_, _)
Join(ss, sep) ==
    IF ss = <<>> THEN <<>>
    ELSE IF Len(ss) = 1 THEN ss[1]
    ELSE ss[1] \o sep \o Join(Tail(ss), sep)

RECURSIVE Repeat(_, _)
Repeat(s, n) == IF n <= 0 THEN <<>> ELSE s \o Repeat(s, n - 1)

\* the tag names the model uses in upper or mixed case
ToLowerCase(t) ==
    CASE t = "HTML" -> "html"
      [] t = "Solution" -> "solution"
      [] OTHER -> t

-----------------------------------------------------------------------------
(* Markup tokens *)

Open(tag, attrs) == [k |-> "open", tag |-> tag, attrs |-> attrs, data |-> <<>>]
Close(tag) == [k |-> "close", tag |-> tag, attrs |-> <<>>, data |-> <<>>]
CommentTok(d) == [k |-> "comment", tag |-> "", attrs |-> <<>>, data |-> d]
TextTok(d) == [k |-> "text", tag |-> "", attrs |-> <<>>, data |-> d]
Attr(n, v) == [name |-> n, value |-> v]

\* character data written as it stands
Chars(s) == IF s = <<>> THEN <<>> ELSE <<TextTok(s)>>

\* string concatenation
a ++ b ==
    IF a # <<>> /\ b # <<>> /\ a[Len(a)].k = "text" /\ b[1].k = "text"
    THEN SubSeq(a, 1, Len(a) - 1) \o <<TextTok(a[Len(a)].data \o b[1].data)>> \o Tail(b)
    ELSE a \o b

RECURSIVE ConcatMarkup(_)
ConcatMarkup(ss) == IF ss = <<>> THEN <<>> ELSE Head(ss) ++ ConcatMarkup(Tail(ss))

-----------------------------------------------------------------------------
(* DOM nodes *)

ElementNode(tag, attrs, kids) ==
    [nodeType |-> "ELEMENT_NODE", tagName |-> tag, attributes |-> attrs,
     childNodes |-> kids, data |-> <<>>]
TextNode(d) ==
    [nodeType |-> "TEXT_NODE", tagName |-> "", attributes |-> <<>>,
     childNodes |-> <<>>, data |-> d]
CommentNode(d) ==
    [nodeType |-> "COMMENT_NODE", tagName |-> "", attributes |-> <<>>,
     childNodes |-> <<>>, data |-> d]
DocumentNode(kids) ==
    [nodeType |-> "DOCUMENT_NODE", tagName |-> "", attributes |-> <<>>,
     childNodes |-> kids, data |-> <<>>]

\* the references of character data and attribute values
RECURSIVE Decode(_)
Decode(raw) ==
    IF raw = <<>> THEN [ok |-> TRUE, v |-> <<>>]
    ELSE IF Head(raw) \in {"<", "\""} THEN [ok |-> FALSE, v |-> <<>>]
    ELSE IF Head(raw) = "&"
         THEN IF Len(raw) >= 2 /\ raw[2] \in {"lt;", "amp;"}
              THEN LET rest == Decode(SubSeq(raw, 3, Len(raw)))
                   IN  [ok |-> rest.ok,
                        v |-> <<IF raw[2] = "lt;" THEN "<" ELSE "&">> \o rest.v]
              ELSE [ok |-> FALSE, v |-> <<>>]
    ELSE LET rest == Decode(Tail(raw))
         IN  [ok |-> rest.ok, v |-> <<Head(raw)>> \o rest.v]

-----------------------------------------------------------------------------
(* DOMParser.parseFromString(xml, 'text/xml') *)

RECURSIVE DecodeKids(_)
DecodeKids(kids) ==
    IF kids = <<>> THEN [ok |-> TRUE, v |-> <<>>]
    ELSE LET rest == DecodeKids(Tail(kids))
             n == Head(kids)
         IN  IF n.nodeType = "TEXT_NODE"
             THEN LET d == Decode(n.data)
                  IN  [ok |-> d.ok /\ rest.ok, v |-> <<TextNode(d.v)>> \o rest.v]
             ELSE [ok |-> rest.ok, v |-> <<n>> \o rest.v]

RECURSIVE DecodeAttrs(_)
DecodeAttrs(attrs) ==
    IF attrs = <<>> THEN [ok |-> TRUE, v |-> <<>>]
    ELSE LET rest == DecodeAttrs(Tail(attrs))
             a == Head(attrs)
             d == Decode(a.value)
             dup == \E j \in 2..Len(attrs) : attrs[j].name = a.name
         IN  [ok |-> d.ok /\ rest.ok /\ ~dup, v |-> <<Attr(a.name, d.v)>> \o rest.v]

Frame(tag, attrs, kids) == [tag |-> tag, attrs |-> attrs, kids |-> kids]

HasElement(kids) == \E j \in 1..Len(kids) : kids[j].nodeType = "ELEMENT_NODE"

\* character data d appended to the children kids of the open element
AppendChars(kids, d) ==
    IF kids # <<>> /\ kids[Len(kids)].nodeType = "TEXT_NODE"
    THEN [kids EXCEPT ![Len(kids)] = TextNode(@.data \o d)]
    ELSE Append(kids, TextNode(d))

ReplaceTop(stack, f) == [stack EXCEPT ![Len(stack)] = f]

\* the parser's state: the open elements (the document first), each with the
\* children read so far, or the first error met
ParserState(stack) == [err |-> FALSE, diag |-> "", stack |-> stack]
ParseFailure(diag) == [err |-> TRUE, diag |-> diag, stack |-> <<>>]

\* the parser reads token t in state st
ParseToken(st, t) ==
    IF st.err THEN st
    ELSE
    LET stack == st.stack
        top == stack[Len(stack)]
        atDoc == Len(stack) = 1
    IN
    CASE t.k = "open" ->
           IF atDoc /\ HasElement(top.kids) THEN ParseFailure("junk after document element")
           ELSE LET a == DecodeAttrs(t.attrs)
                IN  IF ~a.ok THEN ParseFailure("not well-formed")
                    ELSE ParserState(Append(stack, Frame(t.tag, a.v, <<>>)))
      [] t.k = "close" ->
           IF atDoc \/ top.tag # t.tag THEN ParseFailure("mismatched tag")
           ELSE LET d == DecodeKids(top.kids)
                    below == SubSeq(stack, 1, Len(stack) - 1)
                    parent == below[Len(below)]
                IN  IF ~d.ok THEN ParseFailure("not well-formed")
                    ELSE ParserState(
                           ReplaceTop(below,
                             Frame(parent.tag, parent.attrs,
                                   Append(parent.kids, ElementNode(top.tag, top.attrs, d.v)))))
      [] t.k = "comment" ->
           ParserState(ReplaceTop(stack, Frame(top.tag, top.attrs,
                                               Append(top.kids, CommentNode(t.data)))))
      [] OTHER ->
           IF atDoc
           THEN IF Trim(t.data) = <<>> THEN st
                ELSE ParseFailure("text outside the document element")
           ELSE ParserState(ReplaceTop(stack, Frame(top.tag, top.attrs,
                                                    AppendChars(top.kids, t.data))))

\* the parser reads toks[lo..hi] in state st
RECURSIVE ParseRange(_, _, _, _)
ParseRange(st, toks, lo, hi) ==
    IF lo > hi THEN st
    ELSE IF lo = hi THEN ParseToken(st, toks[lo])
    ELSE LET mid == (lo + hi) \div 2
             left == ParseRange(st, toks, lo, mid)
         IN  IF left.err THEN left ELSE ParseRange(left, toks, mid + 1, hi)

\* the end of the text
ParseEnd(st) ==
    IF st.err THEN st
    ELSE IF Len(st.stack) # 1 THEN ParseFailure("unclosed tag")
    ELSE IF ~HasElement(st.stack[1].kids) THEN ParseFailure("no element found")
    ELSE st

\* On a well-formedness error the document returned holds a parsererror
\* element whose text is the parser's diagnostic.
parseFromString(xml) ==
    LET r == ParseEnd(ParseRange(ParserState(<<Frame("#document", <<>>, <<>>)>>), xml, 1, Len(xml)))
    IN  IF r.err
        THEN DocumentNode(<<ElementNode("parsererror", <<>>, <<TextNode(<<r.diag>>)>>)>>)
        ELSE DocumentNode(r.stack[1].kids)

-----------------------------------------------------------------------------
(* DOM queries *)

\* Node.textContent
RECURSIVE textContent(_)
textContent(n) ==
    IF n.nodeType \in {"TEXT_NODE", "COMMENT_NODE"} THEN n.data
    ELSE Concat([j \in 1..Len(n.childNodes) |->
                   IF n.childNodes[j].nodeType = "COMMENT_NODE" THEN <<>>
                   ELSE textContent(n.childNodes[j])])

\* Element.children
Children(n) == SelectSeq(n.childNodes, LAMBDA c : c.nodeType = "ELEMENT_NODE")

\* the element descendants of n in document order
RECURSIVE Descendants(_)
Descendants(n) ==
    Concat([j \in 1..Len(n.childNodes) |->
              IF n.childNodes[j].nodeType = "ELEMENT_NODE"
              THEN <<n.childNodes[j]>> \o Descendants(n.childNodes[j])
              ELSE <<>>])

\* querySelectorAll(tag) / querySelector(tag): type selectors of an XML
\* document match the tag name as written
querySelectorAll(n, tag) == SelectSeq(Descendants(n), LAMBDA e : e.tagName = tag)
querySelector(n, tag) ==
    LET all == querySelectorAll(n, tag) IN IF all = <<>> THEN NULL ELSE all[1]

HasAttribute(el, name) == \E j \in 1..Len(el.attributes) : el.attributes[j].name = name

\* Element.getAttribute: NULL when the attribute is absent, else the
\* attribute, whose value is the string returned
getAttribute(el, name) ==
    IF HasAttribute(el, name)
    THEN CHOOSE a \in {el.attributes[j] : j \in 1..Len(el.attributes)} : a.name = name
    ELSE NULL

\* the white-space separated words of an attribute value
RECURSIVE Words(_, _)
Words(s, cur) ==
    IF s = <<>> THEN (IF cur = <<>> THEN {} ELSE {cur})
    ELSE IF IsSpace(Head(s)) THEN (IF cur = <<>> THEN {} ELSE {cur}) \cup Words(Tail(s), <<>>)
    ELSE Words(Tail(s), Append(cur, Head(s)))

HasClass(el, cls) ==
    HasAttribute(el, "class") /\ <<cls>> \in Words(getAttribute(el, "class").value, <<>>)

\* querySelector('.cls')
querySelectorClass(n, cls) ==
    LET all == SelectSeq(Descendants(n), LAMBDA e : HasClass(e, cls))
    IN  IF all = <<>> THEN NULL ELSE all[1]

\* the XML serialization of character data and of attribute values
RECURSIVE Escape(_)
Escape(s) ==
    IF s = <<>> THEN <<>>
    ELSE (CASE Head(s) = "&" -> <<"&", "amp;">>
            [] Head(s) = "<" -> <<"&", "lt;">>
            [] OTHER -> <<Head(s)>>) \o Escape(Tail(s))

EscapeAttrs(attrs) == [j \in 1..Len(attrs) |-> Attr(attrs[j].name, Escape(attrs[j].value))]

RECURSIVE Serialize(_)
Serialize(n) ==
    CASE n.nodeType = "TEXT_NODE" -> Chars(Escape(n.data))
      [] n.nodeType = "COMMENT_NODE" -> <<CommentTok(n.data)>>
      [] OTHER -> <<Open(n.tagName, EscapeAttrs(n.attributes))>>
                  ++ ConcatMarkup([j \in 1..Len(n.childNodes) |-> Serialize(n.childNodes[j])])
                  ++ <<Close(n.tagName)>>

\* Element.innerHTML
innerHTML(el) == ConcatMarkup([j \in 1..Len(el.childNodes) |-> Serialize(el.childNodes[j])])

-----------------------------------------------------------------------------
(* parseProblem and its helpers *)

Str(s) == [str |-> s]
NaN == [nan |-> TRUE]
Num(n) == [n |-> n]

DigitChars == <<"0", "1", "2", "3", "4", "5", "6", "7", "8", "9">>
IsDigit(c) == \E d \in 1..Len(DigitChars) : DigitChars[d] = c
DigitVal(c) == (CHOOSE d \in 1..Len(DigitChars) : DigitChars[d] = c) - 1

\* the value of the longest prefix of digits of s, after acc
RECURSIVE DigitsValue(_, _)
DigitsValue(s, acc) ==
    IF s = <<>> \/ ~IsDigit(Head(s)) THEN acc
    ELSE DigitsValue(Tail(s), acc * Len(DigitChars) + DigitVal(Head(s)))

\* parseInt(s, 10): leading white space skipped, an optional sign, then the
\* longest prefix of digits; NaN when there is none
parseInt(s) ==
    LET t == TrimStart(s)
        signed == t # <<>> /\ Head(t) \in {"-", "+"}
        u == IF signed THEN Tail(t) ELSE t
    IN  IF u = <<>> \/ ~IsDigit(Head(u)) THEN NaN
        ELSE IF signed /\ Head(t) = "-" THEN Num(0 - DigitsValue(u, 0))
        ELSE Num(DigitsValue(u, 0))

\* a JavaScript string is truthy when it is not empty
Truthy(a) == a # NULL /\ a.value # <<>>

\* x?.textContent?.trim() || ''
TrimmedText(el) == IF el = NULL THEN <<>> ELSE Trim(textContent(el))

parseMetadata(problemEl) ==
    [displayName |-> IF Truthy(getAttribute(problemEl, "display_name"))
                     THEN getAttribute(problemEl, "display_name").value
                     ELSE <<"Untitled Problem">>,
     maxAttempts |-> IF Truthy(getAttribute(problemEl, "max_attempts"))
                     THEN parseInt(getAttribute(problemEl, "max_attempts").value)
                     ELSE NULL,
     markdown |-> IF getAttribute(problemEl, "markdown") = NULL THEN NULL
                  ELSE Str(getAttribute(problemEl, "markdown").value)]

\* el.getAttribute(name) === 'true'
AttrIsTrue(el, name) ==
    el # NULL /\ getAttribute(el, name) # NULL /\ getAttribute(el, name).value = <<"true">>

parseMultipleChoice(el) ==
    LET choiceEls == querySelectorAll(el, "choice")
    IN  [type |-> "multiplechoice",
         label |-> TrimmedText(querySelector(el, "label")),
         choices |-> [c \in 1..Len(choiceEls) |->
                        [text |-> TrimmedText(choiceEls[c]),
                         correct |-> AttrIsTrue(choiceEls[c], "correct")]],
         shuffle |-> AttrIsTrue(querySelector(el, "choicegroup"), "shuffle")]

parseSolution(el) ==
    LET detailedSolution == querySelectorClass(el, "detailed-solution")
    IN  IF detailedSolution # NULL
        THEN LET paragraphs == querySelectorAll(detailedSolution, "p")
                 kept == SelectSeq([p \in 1..Len(paragraphs) |-> [index |-> p - 1, el |-> paragraphs[p]]],
                                   LAMBDA e : ~(e.index = 0 /\ TrimmedText(e.el) = <<"Explanation">>))
                 texts == [p \in 1..Len(kept) |-> TrimmedText(kept[p].el)]
             IN  [explanation |-> Join(texts, <<"\n">>),
                  htmlContent |-> innerHTML(detailedSolution)]
        ELSE [explanation |-> TrimmedText(el), htmlContent |-> innerHTML(el)]

\* a Content Block holding the element itself (outerHTML)
parseHtmlBlockOuter(el) == [type |-> "html", content |-> Serialize(el)]

parseHtmlBlock(el) == [type |-> "html", content |-> innerHTML(el)]

\* child.getAttribute('answer') || ''
AnswerOf(el) == IF Truthy(getAttribute(el, "answer")) THEN getAttribute(el, "answer").value ELSE <<>>

\* the question tags with one tag too many
QuestionTagsWithCustom ==
    {"multiplechoiceresponse", "numericalresponse", "stringresponse", "customresponse"}

QuestionTags == {"multiplechoiceresponse", "numericalresponse", "stringresponse"}

\* the question a question element parses to
parseQuestion(child) ==
    CASE ToLowerCase(child.tagName) = "multiplechoiceresponse" -> parseMultipleChoice(child)
      [] ToLowerCase(child.tagName) = "numericalresponse" ->
           [type |-> "numerical", label |-> TrimmedText(querySelector(child, "label")),
            answer |-> AnswerOf(child), tolerance |-> <<>>]
      [] OTHER ->
           [type |-> "string", label |-> TrimmedText(querySelector(child, "label")),
            answer |-> AnswerOf(child)]

\* a lookahead whose bound is one too far: an explanation that ends the
\* document is not paired
NextIsSolutionOffByOne(kids, idx) ==
    idx + 2 < Len(kids) /\ ToLowerCase(kids[idx + 2].tagName) = "solution"

\* i + 1 < children.length && children[i + 1].tagName.toLowerCase() === 'solution'
\* (kids is 1-based: kids[idx + 1] is children[idx])
NextIsSolution(kids, idx) ==
    idx + 1 < Len(kids) /\ ToLowerCase(kids[idx + 2].tagName) = "solution"

\* message of the Error parseProblem throws on the document doc, or NULL
ParseThrows(doc) ==
    LET perr == querySelector(doc, "parsererror")
    IN  IF perr # NULL THEN Str(<<"XML Parse Error: ">> \o textContent(perr))
        ELSE IF querySelector(doc, "problem") = NULL THEN Str(<<"No <problem> element found">>)
        ELSE NULL

-----------------------------------------------------------------------------
(* countQuestions and validateProblem *)

IsQuestionBlock(b) == "question" \in DOMAIN b

\* a count of every block
countQuestionsAllBlocks(parsed) == Len(parsed.blocks)

countQuestions(parsed) == Len(SelectSeq(parsed.blocks, IsQuestionBlock))

NoCorrectMessage(n) == <<"Question ", ToString(n), " has no correct answer">>
EmptyChoiceMessage(n) == <<"Question ", ToString(n), " has empty choice(s)">>
MissingExplanationMessage(n) == <<"Question ", ToString(n), " is missing an explanation">>

Finding(type, message, n) == [type |-> type, message |-> message, questionIndex |-> n]

\* q.choices.some((c) => c.correct)
HasCorrect(q) == \E c \in 1..Len(q.choices) : q.choices[c].correct

\* the two checks of a multiple-choice question in the other order
ChoiceFindingsWarningFirst(q, n) ==
    IF q.type = "multiplechoice"
    THEN (IF \E c \in 1..Len(q.choices) : Trim(q.choices[c].text) = <<>>
          THEN <<Finding("warning", EmptyChoiceMessage(n), n)>> ELSE <<>>)
         \o (IF ~HasCorrect(q) THEN <<Finding("error", NoCorrectMessage(n), n)>> ELSE <<>>)
    ELSE <<>>

\* the findings of lines 282-302 for question q, numbered n
ChoiceFindings(q, n) ==
    IF q.type = "multiplechoice"
    THEN (IF ~HasCorrect(q) THEN <<Finding("error", NoCorrectMessage(n), n)>> ELSE <<>>)
         \o (IF \E c \in 1..Len(q.choices) : Trim(q.choices[c].text) = <<>>
             THEN <<Finding("warning", EmptyChoiceMessage(n), n)>> ELSE <<>>)
    ELSE <<>>

\* a check that forgets the placeholder text
MissingSolutionNoPlaceholder(block) ==
    \/ block.solution = NULL
    \/ Trim(block.solution.explanation) = <<>>

\* !block.solution || !block.solution.explanation.trim() ||
\* block.solution.explanation === 'Add your explanation here'
MissingSolution(block) ==
    \/ block.solution = NULL
    \/ Trim(block.solution.explanation) = <<>>
    \/ block.solution.explanation = <<"Add your explanation here">>

\* the findings of lines 304-312
SolutionFindings(block, n) ==
    IF MissingSolution(block)
    THEN <<Finding("warning", MissingExplanationMessage(n), n)>> ELSE <<>>

\* a loop that numbers every block, Content Blocks included
RECURSIVE ValidateFromCountingAll(_, _, _)
ValidateFromCountingAll(bs, b, questionIndex) ==
    IF b > Len(bs) THEN <<>>
    ELSE IF IsQuestionBlock(bs[b])
         THEN ChoiceFindings(bs[b].question, questionIndex + 1)
              \o SolutionFindings(bs[b], questionIndex + 1)
              \o ValidateFromCountingAll(bs, b + 1, questionIndex + 1)
         ELSE ValidateFromCountingAll(bs, b + 1, questionIndex + 1)

\* the loop of validateProblem from block b on, questionIndex questions seen
RECURSIVE ValidateFrom(_, _, _)
ValidateFrom(bs, b, questionIndex) ==
    IF b > Len(bs) THEN <<>>
    ELSE IF IsQuestionBlock(bs[b])
         THEN ChoiceFindings(bs[b].question, questionIndex + 1)
              \o SolutionFindings(bs[b], questionIndex + 1)
              \o ValidateFrom(bs, b + 1, questionIndex + 1)
         ELSE ValidateFrom(bs, b + 1, questionIndex)

validateProblem(parsed) == ValidateFrom(parsed.blocks, 1, 0)

-----------------------------------------------------------------------------
(* formatXmlPreserveInline *)

DefaultIndentSize == 2

inlineElements == {"choice", "label", "p", "span", "a", "strong", "em", "code"}

\* PADDING.repeat(indent)
Padding(indentSize, indent) == Chars(Repeat(<<" ">>, indentSize * indent))

\* text and attribute values are written as the DOM holds them
RawAttrs(el) == el.attributes

RECURSIVE formatNode(_, _, _)
formatNode(node, indent, indentSize) ==
    CASE node.nodeType = "TEXT_NODE" -> Chars(Trim(textContent(node)))
      [] node.nodeType = "COMMENT_NODE" ->
           Padding(indentSize, indent) ++ <<CommentTok(textContent(node))>>
      [] node.nodeType # "ELEMENT_NODE" -> <<>>
      [] OTHER ->
           LET tagName == node.tagName
               kids == node.childNodes
               hasOnlyText == Len(kids) = 1 /\ kids[1].nodeType = "TEXT_NODE"
               hasNoChildren == Len(kids) = 0
               isInline == ToLowerCase(tagName) \in inlineElements \/ hasOnlyText
               open == Padding(indentSize, indent) ++ <<Open(tagName, RawAttrs(node))>>
               hasElementChildren == HasElement(kids)
               formatted == [c \in 1..Len(kids) |-> formatNode(kids[c], indent + 1, indentSize)]
               childContent == ConcatMarkup([c \in 1..Len(kids) |->
                                         IF formatted[c] # <<>> THEN Chars(<<"\n">>) ++ formatted[c]
                                         ELSE <<>>])
           IN  IF hasNoChildren THEN open ++ <<Close(tagName)>>
               ELSE IF isInline /\ hasOnlyText
                    THEN open ++ Chars(Trim(textContent(node))) ++ <<Close(tagName)>>
               ELSE IF hasElementChildren
                    THEN open ++ childContent ++ Chars(<<"\n">>)
                         ++ Padding(indentSize, indent) ++ <<Close(tagName)>>
               ELSE open ++ Chars(Trim(textContent(node))) ++ <<Close(tagName)>>

\* Document.documentElement
documentElement(doc) == Children(doc)[1]

\* a formatter that does not look for the parser's error element
formatXmlUnchecked(xml, indentSize) ==
    formatNode(documentElement(parseFromString(xml)), 0, indentSize)

formatXmlPreserveInline(xml, indentSize) ==
    LET doc == parseFromString(xml)
    IN  IF querySelector(doc, "parsererror") # NULL THEN xml
        ELSE formatNode(documentElement(doc), 0, indentSize)

-----------------------------------------------------------------------------
(* The texts put in the editor *)

MaxChildren == 3

El(tag, attrs, content) == <<Open(tag, attrs)>> ++ content ++ <<Close(tag)>>

Kinds == {"html", "mcr", "nr", "sr", "sol", "unk"}
\* the variant of the element at position k changes with the flavour f of
\* the text, so that every variant of a question meets several variants of
\* an explanation
Flavours == {0, 1}
McrVariant(k, f) == (k + f + 2) % 4
SolVariant(k, f) == (k + 2 * f) % 4

Label(k) == El("label", <<>>, Chars(<<"q", ToString(k)>>))
Choice(correct, text) == El("choice", <<Attr("correct", <<correct>>)>>, Chars(text))

\* a multiple-choice question: one correct choice, none, no choice at all,
\* or a miscapitalised "True" next to an empty choice
McrMarkup(k, v) ==
    El("multiplechoiceresponse", <<>>,
       Label(k) ++
       El("choicegroup", <<Attr("type", <<"MultipleChoice">>), Attr("shuffle", <<"true">>)>>,
          CASE v = 0 -> Choice("false", <<"x">>) ++ Choice("true", <<"y">>)
            [] v = 1 -> Choice("false", <<"x">>) ++ Choice("false", <<"y">>)
            [] v = 2 -> <<>>
            [] OTHER -> Choice("True", <<"x">>) ++ Choice("false", <<" ">>)))

\* an explanation: header and text, header only, the placeholder, or a
\* second paragraph reading "Explanation"
SolMarkup(k, v) ==
    CASE v = 0 -> El("solution", <<>>,
                     El("div", <<Attr("class", <<"detailed-solution">>)>>,
                        El("p", <<>>, Chars(<<"Explanation">>))
                        ++ El("p", <<>>, Chars(<<"s", ToString(k)>>))))
      [] v = 1 -> El("Solution", <<>>,
                     El("div", <<Attr("class", <<"x", " ", "detailed-solution">>)>>,
                        El("p", <<>>, Chars(<<" ", "Explanation", "\n">>))))
      [] v = 2 -> El("solution", <<>>, Chars(<<"Add your explanation here">>))
      [] OTHER -> El("solution", <<>>,
                     El("div", <<Attr("class", <<"detailed-solution">>)>>,
                        El("p", <<>>, Chars(<<"s", ToString(k)>>))
                        ++ El("p", <<>>, Chars(<<"Explanation">>))))

ChildMarkup(kind, k, f) ==
    CASE kind = "html" -> El(IF McrVariant(k, f) = 0 THEN "HTML" ELSE "html", <<>>,
                             El("p", <<>>, Chars(<<"h", ToString(k)>>)))
      [] kind = "mcr" -> McrMarkup(k, McrVariant(k, f))
      [] kind = "nr" -> El("numericalresponse", <<Attr("answer", <<"4", "2">>)>>, Label(k))
      [] kind = "sr" -> El("stringresponse", <<Attr("answer", <<"a", ToString(k)>>)>>, Label(k))
      [] kind = "sol" -> SolMarkup(k, SolVariant(k, f))
      [] OTHER -> El("customresponse", <<>>, Chars(<<"u", ToString(k)>>))

KindSeqs == UNION {[1..n -> Kinds] : n \in 0..MaxChildren}

ProblemDoc(attrs, ks, f) ==
    El("problem", attrs, ConcatMarkup([k \in 1..Len(ks) |-> ChildMarkup(ks[k], k, f)]))

StructureInputs ==
    {ProblemDoc(<<Attr("display_name", <<"T">>)>>, ks, f) : ks \in KindSeqs, f \in Flavours}

MaxAttemptsValues ==
    {<<>>, <<"2">>, <<"1", "2">>, <<"abc">>, <<"2", "abc">>, <<" ", "2">>, <<"-", "1">>, <<"0">>,
     <<"&", "amp;">>}

MetadataInputs ==
    {ProblemDoc(<<Attr("max_attempts", v)>>, <<"nr">>, 1) : v \in MaxAttemptsValues}
    \cup {ProblemDoc(<<Attr("display_name", <<>>), Attr("markdown", <<"null">>)>>, <<"sr">>, 1),
          ProblemDoc(<<>>, <<"html">>, 1)}

\* well-formed texts whose root is not, or does not hold at top level, the problem
RootInputs ==
    {El("wrapper", <<>>, ProblemDoc(<<>>, <<"sr", "sol">>, 0)),
     El("library", <<>>, El("html", <<>>, <<>>) ++ El("vertical", <<>>, ProblemDoc(<<>>, <<"html">>, 1))),
     El("wrapper", <<>>, El("html", <<>>, Chars(<<"a">>))),
     El("html", <<>>, <<>>),
     <<CommentTok(<<"c">>)>> ++ El("problem", <<>>, El("problem", <<>>, ChildMarkup("nr", 1, 0)))}

\* labels and content with references, comments and mixed children
TextVariants ==
    {<<"a">>, <<"a", " ", "b">>, <<"&", "lt;">>, <<"&", "amp;">>, <<"&", "amp;", "lt;">>,
     <<"&", "amp;", "amp;", "lt;">>, <<" ", "a", "\n">>}

MarkupVariants ==
    {Chars(t) : t \in TextVariants}
    \cup {Chars(<<"a">>) ++ <<CommentTok(<<"c">>)>> ++ Chars(<<"b">>),
          <<CommentTok(<<"c">>)>>,
          Chars(<<"a", " ">>) ++ El("strong", <<>>, Chars(<<"b">>)) ++ Chars(<<" ", "c">>),
          Chars(<<"a">>) ++ El("em", <<>>, Chars(<<"b">>)) ++ Chars(<<"c">>),
          El("p", <<>>, <<CommentTok(<<"c">>)>> ++ Chars(<<"a">>)),
          Chars(<<"\n", " ">>) ++ El("p", <<>>, Chars(<<"a">>)) ++ Chars(<<"\n">>)}

ContentInputs ==
    {El("problem", <<>>,
        El("html", <<>>, m)
        ++ El("stringresponse", <<>>, El("label", <<>>, m))
        ++ El("solution", <<>>, m)
        ++ El("html", <<>>, m)) : m \in MarkupVariants}
    \cup {El("problem", <<Attr("display_name", t)>>,
             El("numericalresponse", <<Attr("answer", t)>>, <<>>)) : t \in TextVariants}

WellFormedInputs == StructureInputs \cup MetadataInputs \cup RootInputs \cup ContentInputs

\* texts that are not well-formed: an unclosed tag, a mismatched end tag, a
\* bare "&" or "<" in character data or in an attribute value, two roots,
\* nothing at all, text outside the root
MalformedInputs ==
    {<<Open("problem", <<>>)>> ++ ChildMarkup("nr", 1, 0),
     <<Open("problem", <<>>), Open("html", <<>>), Close("problem")>>,
     El("problem", <<>>, El("html", <<>>, Chars(<<"a", "&", "b">>))),
     El("problem", <<>>, El("html", <<>>, Chars(<<"a", "<">>))),
     El("problem", <<Attr("display_name", <<"<">>)>>, <<>>),
     El("problem", <<>>, <<>>) ++ El("problem", <<>>, <<>>),
     <<>>,
     Chars(<<"a">>) ++ El("problem", <<>>, <<>>),
     <<Close("problem")>>,
     El("problem", <<Attr("a", <<"1">>), Attr("a", <<"2">>)>>, <<>>)}

-----------------------------------------------------------------------------
(* The editor: the parse effect of App.tsx and the Format button *)

LoopIdle ==
    /\ children = <<>> /\ i = 0 /\ blocks = <<>> /\ introHtml = <<>>
    /\ foundFirstQuestion = FALSE /\ metadata = NULL /\ visited = {}

Init ==
    /\ \/ xmlContent \in WellFormedInputs /\ inputWellFormed = TRUE
       \/ xmlContent \in MalformedInputs /\ inputWellFormed = FALSE
    /\ pc = "ready"
    /\ LoopIdle
    /\ parsedProblem = NULL
    /\ parseError = NULL
    /\ validationErrors = <<>>
    /\ formatPressed = FALSE
    /\ history = <<>>

\* what one run of the effect saw and stored
Run(xml, parsed, error) == [xml |-> xml, parsed |-> parsed, error |-> error]

\* parseProblem lines 84-104: the text parses and holds a problem element
ParseBegin ==
    /\ pc = "ready"
    /\ LET doc == parseFromString(xmlContent)
           problemEl == querySelector(doc, "problem")
       IN  /\ ParseThrows(doc) = NULL
           /\ metadata' = parseMetadata(problemEl)
           /\ children' = Children(problemEl)
    /\ blocks' = <<>>
    /\ introHtml' = <<>>
    /\ i' = 0
    /\ foundFirstQuestion' = FALSE
    /\ visited' = {}
    /\ pc' = "loop"
    /\ UNCHANGED <<xmlContent, parsedProblem, parseError, validationErrors,
                   inputWellFormed, formatPressed, history>>

\* a catch that stores the message and leaves the model and its findings
ParseFailKeepsModel ==
    /\ pc = "ready"
    /\ LET doc == parseFromString(xmlContent)
       IN  /\ ParseThrows(doc) # NULL
           /\ parseError' = ParseThrows(doc)
    /\ history' = Append(history, Run(xmlContent, NULL, parseError'))
    /\ formatPressed' = FALSE
    /\ pc' = "idle"
    /\ UNCHANGED <<xmlContent, children, i, blocks, introHtml, foundFirstQuestion,
                   metadata, visited, inputWellFormed, parsedProblem, validationErrors>>

\* parseProblem throws (lines 89-96) and the effect catches (App.tsx 69-73)
ParseFail ==
    /\ pc = "ready"
    /\ LET doc == parseFromString(xmlContent)
       IN  /\ ParseThrows(doc) # NULL
           /\ parseError' = ParseThrows(doc)
    /\ parsedProblem' = NULL
    /\ validationErrors' = <<>>
    /\ history' = Append(history, Run(xmlContent, NULL, parseError'))
    /\ formatPressed' = FALSE
    /\ pc' = "idle"
    /\ UNCHANGED <<xmlContent, children, i, blocks, introHtml, foundFirstQuestion,
                   metadata, visited, inputWellFormed>>

\* one iteration of the loop of parseProblem (lines 106-172)
ParseIter ==
    /\ pc = "loop"
    /\ i < Len(children)
    /\ LET child == children[i + 1]
           tagName == ToLowerCase(child.tagName)
       IN  /\ visited' = visited \cup {i}
           /\ IF tagName = "html"
              THEN /\ IF ~foundFirstQuestion
                      THEN introHtml' = introHtml ++ innerHTML(child) /\ blocks' = blocks
                      ELSE blocks' = Append(blocks, parseHtmlBlock(child)) /\ introHtml' = introHtml
                   /\ i' = i + 1
                   /\ UNCHANGED foundFirstQuestion
              ELSE IF tagName \in QuestionTags
              THEN /\ foundFirstQuestion' = TRUE
                   /\ IF NextIsSolution(children, i)
                      THEN /\ blocks' = Append(blocks, [question |-> parseQuestion(child),
                                                        solution |-> parseSolution(children[i + 2])])
                           /\ i' = i + 2
                      ELSE /\ blocks' = Append(blocks, [question |-> parseQuestion(child),
                                                        solution |-> NULL])
                           /\ i' = i + 1
                   /\ UNCHANGED introHtml
              ELSE /\ i' = i + 1
                   /\ UNCHANGED <<blocks, introHtml, foundFirstQuestion>>
    /\ UNCHANGED <<xmlContent, pc, children, metadata, parsedProblem, parseError,
                   validationErrors, inputWellFormed, formatPressed, history>>

\* parseProblem returns (line 174) and the effect stores the model and its
\* findings (App.tsx 65-68)
ParseDone ==
    /\ pc = "loop"
    /\ i >= Len(children)
    /\ parsedProblem' = [metadata |-> metadata, introHtml |-> introHtml, blocks |-> blocks]
    /\ parseError' = NULL
    /\ validationErrors' = validateProblem(parsedProblem')
    /\ history' = Append(history, Run(xmlContent, parsedProblem', NULL))
    /\ formatPressed' = FALSE
    /\ pc' = "idle"
    /\ UNCHANGED <<xmlContent, children, i, blocks, introHtml, foundFirstQuestion,
                   metadata, visited, inputWellFormed>>

\* handleFormat (App.tsx 114-127): the text becomes its formatted form; the
\* effect depends on xmlContent (App.tsx 74) and is due again when it changed
HandleFormat ==
    /\ pc = "idle"
    /\ xmlContent' = formatXmlPreserveInline(xmlContent, DefaultIndentSize)
    /\ pc' = IF xmlContent' = xmlContent THEN "idle" ELSE "ready"
    /\ formatPressed' = TRUE
    /\ UNCHANGED <<children, i, blocks, introHtml, foundFirstQuestion, metadata,
                   parsedProblem, parseError, validationErrors, visited,
                   inputWellFormed, history>>

Next == ParseBegin \/ ParseFail \/ ParseIter \/ ParseDone \/ HandleFormat

Spec == Init /\ [][Next]_vars

-----------------------------------------------------------------------------
(* The editor with edits and file loads *)

\* a line break followed by n spaces
Nl(n) == Chars(<<"\n">> \o Repeat(<<" ">>, n))

SampleChoice(correct, text) == Nl(6) ++ Choice(correct, <<text>>)

SampleQuestion(label, shuffle, choices, explanation) ==
    Nl(2) ++ El("multiplechoiceresponse", <<>>,
                Nl(4) ++ El("label", <<>>, Chars(<<label>>))
                ++ Nl(4) ++ El("choicegroup",
                               <<Attr("type", <<"MultipleChoice">>), Attr("shuffle", <<shuffle>>)>>,
                               choices ++ Nl(4))
                ++ Nl(2))
    ++ Nl(2) ++ El("solution", <<>>,
                   Nl(4) ++ El("div", <<Attr("class", <<"detailed-solution">>)>>,
                               Nl(6) ++ El("p", <<>>, Chars(<<"Explanation">>))
                               ++ Nl(6) ++ El("p", <<>>, Chars(<<explanation>>))
                               ++ Nl(4))
                   ++ Nl(2))

\* the text the editor starts with (App.tsx 13-49)
SAMPLE_PROBLEM ==
    El("problem",
       <<Attr("display_name", <<"Sample", " ", "Problem">>), Attr("max_attempts", <<"2">>),
         Attr("markdown", <<"null">>)>>,
       Nl(2) ++ El("html", <<>>,
                   Nl(4) ++ El("p", <<>>, Chars(<<"This is an example edX megaproblem.">>)) ++ Nl(2))
       ++ Chars(<<"\n">>)
       ++ SampleQuestion("1) What is 2 + 2?", "false",
                         SampleChoice("false", "3") ++ SampleChoice("true", "4")
                         ++ SampleChoice("false", "5") ++ SampleChoice("false", "22"),
                         "2 + 2 = 4. This is basic arithmetic.")
       ++ Chars(<<"\n">>)
       ++ SampleQuestion("2) Which planet is closest to the Sun?", "true",
                         SampleChoice("false", "Venus") ++ SampleChoice("true", "Mercury")
                         ++ SampleChoice("false", "Earth") ++ SampleChoice("false", "Mars"),
                         "Mercury is the closest planet to the Sun in our solar system.")
       ++ Chars(<<"\n">>))

\* the number of runs of the parse effect after which no more text is typed
\* or loaded
MaxRuns == 3

\* texts that parse, texts whose root is not a problem, texts that are not
\* well-formed
ValidTexts == {SAMPLE_PROBLEM, ProblemDoc(<<>>, <<"html", "mcr">>, 1)}
RootlessTexts == {El("html", <<>>, El("p", <<>>, Chars(<<"a">>)))}
BrokenTexts == {<<>>, <<Open("problem", <<>>), Open("html", <<>>)>> ++ Chars(<<"a">>)}
EditInputs == ValidTexts \cup RootlessTexts \cup BrokenTexts

\* the editor as App mounts it (App.tsx 52-55), the parse effect due
InitApp ==
    /\ xmlContent = SAMPLE_PROBLEM /\ inputWellFormed = TRUE
    /\ pc = "ready"
    /\ LoopIdle
    /\ parsedProblem = NULL
    /\ parseError = NULL
    /\ validationErrors = <<>>
    /\ formatPressed = FALSE
    /\ history = <<>>

\* setXmlContent(text): the effect is due when the text changed
SetXmlContent(text) ==
    /\ xmlContent' = text
    /\ inputWellFormed' = (text \notin BrokenTexts)
    /\ pc' = IF text = xmlContent THEN "idle" ELSE "ready"
    /\ formatPressed' = FALSE
    /\ UNCHANGED <<children, i, blocks, introHtml, foundFirstQuestion, metadata,
                   parsedProblem, parseError, validationErrors, visited, history>>

\* the update listener of the editor (App.tsx 84-88): the document changed
EditorChange ==
    /\ pc = "idle" /\ Len(history) < MaxRuns
    /\ \E text \in EditInputs : text # xmlContent /\ SetXmlContent(text)

\* handleFileUpload (App.tsx 130-150): the file's content replaces the text
HandleFileUpload ==
    /\ pc = "idle" /\ Len(history) < MaxRuns
    /\ \E content \in EditInputs : SetXmlContent(content)

NextApp == Next \/ EditorChange \/ HandleFileUpload

SpecApp == InitApp /\ [][NextApp]_vars

-----------------------------------------------------------------------------
(* Claims *)

IsQuestionEl(c) == ToLowerCase(c.tagName) \in QuestionTags
IsSolutionEl(c) == ToLowerCase(c.tagName) = "solution"
IsHtmlEl(c) == ToLowerCase(c.tagName) = "html"

\* the positions (1-based) of children the loop has gone past
Processed == {p \in 1..Len(children) : p <= i}

\* the members of the set of positions S in increasing order
RECURSIVE Sorted(_)
Sorted(S) ==
    IF S = {} THEN <<>>
    ELSE LET m == CHOOSE x \in S : \A y \in S : x <= y
         IN  <<m>> \o Sorted(S \ {m})

QuestionPositions == Sorted({p \in Processed : IsQuestionEl(children[p])})

\* an explanation right after a question
PairedSolution(p) ==
    p >= 2 /\ p <= Len(children) /\ IsSolutionEl(children[p]) /\ IsQuestionEl(children[p - 1])

\* positions of the content elements after the first question
ContentPositions ==
    {p \in Processed : IsHtmlEl(children[p]) /\ \E q \in 1..(p - 1) : IsQuestionEl(children[q])}
IntroPositions ==
    {p \in Processed : IsHtmlEl(children[p]) /\ \A q \in 1..(p - 1) : ~IsQuestionEl(children[q])}

QuestionBlocks(bs) == SelectSeq(bs, IsQuestionBlock)

\* C1: an explanation element right after a question element is never
\* visited by the loop on its own and never becomes a block of its own; the
\* n-th Question Block holds the explanation parsed from the element right
\* after the n-th question element, and null when that element is no
\* explanation.
C1_LookaheadPairing ==
    LET qb == QuestionBlocks(blocks)
        qp == QuestionPositions
    IN  /\ \A v \in visited : ~PairedSolution(v + 1)
        /\ Len(blocks) = Len(qp) + Cardinality(ContentPositions)
        /\ Len(qb) = Len(qp)
        /\ \A n \in 1..Len(qp) :
             qb[n].solution =
               IF PairedSolution(qp[n] + 1) THEN parseSolution(children[qp[n] + 1]) ELSE NULL

\* a parse that paired one question with its explanation, left another
\* without, and went past the paired explanation
C1_Witness ==
    /\ pc = "idle" /\ parsedProblem # NULL
    /\ \E n, m \in 1..Len(blocks) :
         /\ IsQuestionBlock(blocks[n]) /\ blocks[n].solution # NULL
         /\ IsQuestionBlock(blocks[m]) /\ blocks[m].solution = NULL
    /\ \E p \in 1..Len(children) : PairedSolution(p)

\* C2: the inner markup of the content elements before the first question
\* makes up introHtml, in document order, and they give no block; a content
\* element after the first question gives one Content Block, at its place
\* among the blocks, and leaves introHtml alone.
C2_IntroOrContentBlock ==
    LET sources == Sorted({p \in Processed : IsQuestionEl(children[p])} \cup ContentPositions)
        intro == Sorted(IntroPositions)
    IN  /\ introHtml = ConcatMarkup([n \in 1..Len(intro) |-> innerHTML(children[intro[n]])])
        /\ Len(blocks) = Len(sources)
        /\ \A n \in 1..Len(sources) :
             IF IsHtmlEl(children[sources[n]])
             THEN blocks[n] = [type |-> "html", content |-> innerHTML(children[sources[n]])]
             ELSE IsQuestionBlock(blocks[n])

\* a parse with content before and after the first question
C2_Witness ==
    /\ pc = "idle" /\ parsedProblem # NULL
    /\ IntroPositions # {} /\ ContentPositions # {}
    /\ parsedProblem.introHtml # <<>>
    /\ \E n \in 1..Len(parsedProblem.blocks) : ~IsQuestionBlock(parsedProblem.blocks[n])

\* the text the effect has parsed last, and its root element
LastRun == history[Len(history)]
RootOf(xml) == documentElement(parseFromString(xml))
Parsed == pc = "idle" /\ parsedProblem # NULL

\* C3: countQuestions of the parsed model of a text whose root is the
\* problem element is the number of question elements among the root's
\* children.
C3_CountQuestions ==
    Parsed /\ RootOf(LastRun.xml).tagName = "problem" =>
        countQuestions(parsedProblem)
          = Cardinality({p \in 1..Len(Children(RootOf(LastRun.xml))) :
                           IsQuestionEl(Children(RootOf(LastRun.xml))[p])})

\* questions counted among content, explanations and unknown elements
C3_Witness ==
    /\ Parsed
    /\ countQuestions(parsedProblem) = 2
    /\ \E p \in 1..Len(children) : IsSolutionEl(children[p]) \/ IsHtmlEl(children[p])

\* the run's text is well-formed: the parser reported no error for it
WellFormedRun(run) == run.error = NULL \/ run.error.str[1] # "XML Parse Error: "

\* a string without its white space
StripSpace(s) == SelectSeq(s, LAMBDA c : ~IsSpace(c))

\* markup without the white space of its character data
StripMarkup(m) ==
    SelectSeq([t \in 1..Len(m) |-> IF m[t].k = "text" THEN TextTok(StripSpace(m[t].data)) ELSE m[t]],
              LAMBDA t : ~(t.k = "text" /\ t.data = <<>>))

MeaningOfQuestion(q) ==
    IF q.type = "multiplechoice"
    THEN [type |-> q.type, label |-> StripSpace(q.label), answer |-> <<>>, shuffle |-> q.shuffle,
          choices |-> [c \in 1..Len(q.choices) |->
                         [text |-> StripSpace(q.choices[c].text), correct |-> q.choices[c].correct]]]
    ELSE [type |-> q.type, label |-> StripSpace(q.label), answer |-> q.answer, shuffle |-> FALSE,
          choices |-> <<>>]

MeaningOfBlock(b) ==
    IF IsQuestionBlock(b)
    THEN [question |-> MeaningOfQuestion(b.question),
          solution |-> IF b.solution = NULL THEN NULL
                       ELSE [explanation |-> StripSpace(b.solution.explanation),
                             htmlContent |-> StripMarkup(b.solution.htmlContent)]]
    ELSE [type |-> b.type, content |-> StripMarkup(b.content)]

\* what a parsed model says, white space aside; no model says nothing
Meaning(parsed) ==
    IF parsed = NULL THEN NULL
    ELSE [metadata |-> parsed.metadata,
          introHtml |-> StripMarkup(parsed.introHtml),
          blocks |-> [b \in 1..Len(parsed.blocks) |-> MeaningOfBlock(parsed.blocks[b])]]

\* run r parsed the formatted text of the run before it, both well-formed
FormattedRun(r) ==
    /\ r \in 2..Len(history)
    /\ WellFormedRun(history[r - 1]) /\ WellFormedRun(history[r])
    /\ history[r].xml = formatXmlPreserveInline(history[r - 1].xml, DefaultIndentSize)

\* C4: when a well-formed text and its formatted text are both well-formed,
\* they parse to the same model: the same metadata, introduction and blocks,
\* white space aside.
C4_FormatPreservesMeaning ==
    \A r \in 1..Len(history) :
        FormattedRun(r) => Meaning(history[r].parsed) = Meaning(history[r - 1].parsed)

\* C5: the formatted text of a well-formed text is its own formatted text.
C5_FormatIdempotent ==
    \A r \in 1..Len(history) :
        r >= 2 /\ WellFormedRun(history[r - 1])
        /\ history[r].xml = formatXmlPreserveInline(history[r - 1].xml, DefaultIndentSize)
        => formatXmlPreserveInline(history[r].xml, DefaultIndentSize) = history[r].xml

\* C6: for a text that is not well-formed, parse fails with the message
\* "XML Parse Error: " followed by the parser's diagnostic and gives no
\* model, not even a partial one, and Format leaves the text exactly as it
\* was.
C6_MalformedInput ==
    ~inputWellFormed =>
        /\ pc \in {"ready", "idle"}
        /\ blocks = <<>> /\ metadata = NULL /\ parsedProblem = NULL
        /\ pc = "ready" => history = <<>>
        /\ pc = "idle" =>
             /\ Len(history) = 1
             /\ xmlContent = history[1].xml
             /\ validationErrors = <<>>
             /\ parseError = Str(<<"XML Parse Error: ">> \o textContent(RootOf(xmlContent)))

\* a text that is not well-formed, parsed, and then formatted
C6_Witness ==
    /\ ~inputWellFormed /\ pc = "idle" /\ formatPressed
    /\ parseError # NULL /\ Len(parseError.str) = 2

\* C7: a max_attempts attribute that is missing or holds no number gives
\* maxAttempts = null, so that maxAttempts is null or an integer.
C7_MaxAttemptsNullOrInteger ==
    Parsed /\ RootOf(LastRun.xml).tagName = "problem" =>
        LET a == getAttribute(RootOf(LastRun.xml), "max_attempts")
            m == parsedProblem.metadata.maxAttempts
        IN  /\ (a = NULL \/ \A j \in 1..Len(a.value) : ~IsDigit(a.value[j])) => m = NULL
            /\ m = NULL \/ DOMAIN m = {"n"}

\* C8: when the root of a well-formed text is not the problem element, parse
\* fails with "No <problem> element found" and gives no model.
C8_RootMustBeProblem ==
    pc = "idle" /\ WellFormedRun(LastRun) /\ RootOf(LastRun.xml).tagName # "problem" =>
        /\ parsedProblem = NULL
        /\ parseError = Str(<<"No <problem> element found">>)

FindingsWhere(Test(_)) == {e \in 1..Len(validationErrors) : Test(validationErrors[e])}

\* C9: the n-th Question Block, when it is multiple-choice and none of its
\* choices is correct, has exactly one error, "Question n has no correct
\* answer" with questionIndex n; every other Question Block has no error.
C9_NoCorrectAnswer ==
    Parsed =>
        LET qb == QuestionBlocks(parsedProblem.blocks)
        IN  /\ \A n \in 1..Len(qb) :
                 LET errs == FindingsWhere(LAMBDA f : f.type = "error" /\ f.questionIndex = n)
                 IN  IF /\ qb[n].question.type = "multiplechoice"
                        /\ \A c \in 1..Len(qb[n].question.choices) : ~qb[n].question.choices[c].correct
                     THEN /\ Cardinality(errs) = 1
                          /\ \A e \in errs : validationErrors[e].message
                                               = <<"Question ", ToString(n), " has no correct answer">>
                     ELSE errs = {}
            /\ \A e \in FindingsWhere(LAMBDA f : f.type = "error") :
                 validationErrors[e].questionIndex \in 1..Len(qb)

\* a multiple-choice question without a correct choice that comes second
\* among the questions and third among the blocks, and one without choices
C9_Witness ==
    /\ Parsed
    /\ Len(parsedProblem.blocks) = 3 /\ ~IsQuestionBlock(parsedProblem.blocks[2])
    /\ IsQuestionBlock(parsedProblem.blocks[3])
    /\ parsedProblem.blocks[3].question.type = "multiplechoice"
    /\ parsedProblem.blocks[3].question.choices = <<>>
    /\ FindingsWhere(LAMBDA f : f.type = "error" /\ f.questionIndex = 2) # {}

\* an explanation element whose detailed explanation holds the header
\* paragraph alone
HeaderOnly(el) ==
    LET ds == querySelectorClass(el, "detailed-solution")
    IN  /\ ds # NULL
        /\ Len(querySelectorAll(ds, "p")) = 1
        /\ Trim(textContent(querySelectorAll(ds, "p")[1])) = <<"Explanation">>

MissingWarnings(n) ==
    FindingsWhere(LAMBDA f : f.message = <<"Question ", ToString(n), " is missing an explanation">>)

\* C10: the n-th Question Block has one warning "Question n is missing an
\* explanation" when its explanation is absent, trims to nothing or is the
\* placeholder, and none otherwise; a question paired with an explanation
\* that holds the "Explanation" header alone has the warning.
C10_MissingExplanation ==
    Parsed =>
        LET qb == QuestionBlocks(parsedProblem.blocks)
        IN  \A n \in 1..Len(qb) :
              /\ Cardinality(MissingWarnings(n)) =
                   IF \/ qb[n].solution = NULL
                      \/ Trim(qb[n].solution.explanation) = <<>>
                      \/ qb[n].solution.explanation = <<"Add your explanation here">>
                   THEN 1 ELSE 0
              /\ \A e \in MissingWarnings(n) :
                   validationErrors[e].type = "warning" /\ validationErrors[e].questionIndex = n
              /\ PairedSolution(QuestionPositions[n] + 1)
                 /\ HeaderOnly(children[QuestionPositions[n] + 1])
                 => MissingWarnings(n) # {}

\* a question paired with an explanation that holds the header alone, and
\* a question without explanation, each with its warning
C10_Witness ==
    /\ Parsed
    /\ \E n \in 1..Len(QuestionPositions) :
         /\ PairedSolution(QuestionPositions[n] + 1)
         /\ HeaderOnly(children[QuestionPositions[n] + 1])
         /\ MissingWarnings(n) # {}
    /\ \E n \in 1..Len(QuestionPositions) :
         /\ ~PairedSolution(QuestionPositions[n] + 1)
         /\ MissingWarnings(n) # {}

\* a question paired with a real explanation has no warning
C10_WitnessExplained ==
    /\ Parsed
    /\ \E n \in 1..Len(QuestionPositions) :
         /\ PairedSolution(QuestionPositions[n] + 1)
         /\ MissingWarnings(n) = {}

\* the kind of a finding: 1 no correct answer, 2 empty choice, 3 missing
\* explanation, read from its message
KindOfFinding(f) ==
    CASE f.message = <<"Question ", ToString(f.questionIndex), " has no correct answer">> -> 1
      [] f.message = <<"Question ", ToString(f.questionIndex), " has empty choice(s)">> -> 2
      [] f.message = <<"Question ", ToString(f.questionIndex), " is missing an explanation">> -> 3
      [] OTHER -> 0

\* C11: along the list of findings questionIndex never decreases, and the
\* findings of one Question Block come in the order no correct answer, empty
\* choice, missing explanation, each kind at most once.
C11_FindingsOrdered ==
    Parsed =>
        /\ \A e \in 1..Len(validationErrors) : KindOfFinding(validationErrors[e]) \in 1..3
        /\ \A d, e \in 1..Len(validationErrors) :
             d < e =>
               /\ validationErrors[d].questionIndex <= validationErrors[e].questionIndex
               /\ validationErrors[d].questionIndex = validationErrors[e].questionIndex
                  => KindOfFinding(validationErrors[d]) < KindOfFinding(validationErrors[e])

\* a question with the three findings, followed by findings of a later question
C11_Witness ==
    /\ Parsed
    /\ Len(validationErrors) >= 4
    /\ \A e \in 1..3 : /\ validationErrors[e].questionIndex = 1
                       /\ KindOfFinding(validationErrors[e]) = e
    /\ validationErrors[4].questionIndex = 2

\* the tag of child p, in lower case
TagAt(p) == ToLowerCase(children[p].tagName)

\* child p is an explanation that no question immediately precedes, or an
\* element with a tag parse does not know
Skipped(p) ==
    LET questions == {"multiplechoiceresponse", "numericalresponse", "stringresponse"}
    IN  \/ TagAt(p) = "solution" /\ (p = 1 \/ TagAt(p - 1) \notin questions)
        \/ TagAt(p) \notin questions \cup {"html", "solution"}

\* C12: the step of the loop at a standalone explanation or at an element
\* with an unknown tag adds no block, leaves the introduction, the
\* foundFirstQuestion flag and every block's explanation as they were, raises
\* no error, and goes on to the next child.
C12_SkippedElements ==
    [][pc = "loop" /\ i < Len(children) /\ Skipped(i + 1)
       => /\ blocks' = blocks
          /\ introHtml' = introHtml
          /\ foundFirstQuestion' = foundFirstQuestion
          /\ parseError' = parseError
          /\ pc' = "loop" /\ i' = i + 1]_vars

\* the loop has gone past a question, an unknown element and then a
\* standalone explanation, and holds the one block of the question
C12_Witness ==
    /\ pc = "loop" /\ i = 3 /\ visited = {0, 1, 2}
    /\ TagAt(1) = "stringresponse"
    /\ TagAt(2) = "customresponse" /\ Skipped(2)
    /\ TagAt(3) = "solution" /\ Skipped(3)
    /\ Len(blocks) = 1 /\ blocks[1].solution = NULL
    /\ foundFirstQuestion

\* the loop has gone past an explanation that comes before any question
C12_WitnessLeading ==
    /\ pc = "loop" /\ i = 1 /\ TagAt(1) = "solution" /\ Skipped(1)
    /\ blocks = <<>> /\ introHtml = <<>> /\ ~foundFirstQuestion

\* the comments under node n, in document order
RECURSIVE CommentNodes(_)
CommentNodes(n) ==
    IF n.nodeType = "COMMENT_NODE" THEN <<n.data>>
    ELSE Concat([j \in 1..Len(n.childNodes) |-> CommentNodes(n.childNodes[j])])

\* the comments written in a text, in order
CommentsWritten(xml) ==
    LET toks == SelectSeq(xml, LAMBDA t : t.k = "comment")
    IN  [t \in 1..Len(toks) |-> toks[t].data]

\* C13: the formatted text of a well-formed text holds every comment of the
\* tree under its root element, each once and in document order.
C13_CommentsKept ==
    \A r \in 1..Len(history) :
        r >= 2 /\ WellFormedRun(history[r - 1])
        /\ history[r].xml = formatXmlPreserveInline(history[r - 1].xml, DefaultIndentSize)
        => CommentsWritten(history[r].xml) = CommentNodes(RootOf(history[r - 1].xml))

\* C14: once the parse effect has run, whatever was typed, loaded or
\* formatted before, parsedProblem and parseError are not both set; when the
\* text does not parse there is no model and no finding and parseError holds
\* the message; when it parses parseError is null, the model is that of the
\* text and validationErrors are the findings of the model.
C14_StateAfterParse ==
    pc = "idle" =>
        LET doc == parseFromString(xmlContent)
            perr == querySelector(doc, "parsererror")
            problemEl == querySelector(doc, "problem")
        IN  /\ ~(parsedProblem # NULL /\ parseError # NULL)
            /\ perr # NULL =>
                 /\ parsedProblem = NULL /\ validationErrors = <<>>
                 /\ parseError = Str(<<"XML Parse Error: ">> \o textContent(perr))
            /\ perr = NULL /\ problemEl = NULL =>
                 /\ parsedProblem = NULL /\ validationErrors = <<>>
                 /\ parseError = Str(<<"No <problem> element found">>)
            /\ perr = NULL /\ problemEl # NULL =>
                 /\ parseError = NULL /\ parsedProblem # NULL
                 /\ parsedProblem.metadata = parseMetadata(problemEl)
                 /\ countQuestions(parsedProblem)
                      = Cardinality({c \in 1..Len(Children(problemEl)) :
                                        IsQuestionEl(Children(problemEl)[c])})
                 /\ validationErrors = validateProblem(parsedProblem)

\* a text that does not parse, typed or loaded after one that parsed and had
\* findings
C14_Witness ==
    /\ pc = "idle" /\ Len(history) >= 2
    /\ history[Len(history) - 1].parsed # NULL
    /\ validateProblem(history[Len(history) - 1].parsed) # <<>>
    /\ LastRun.xml = xmlContent /\ LastRun.parsed = NULL
    /\ parsedProblem = NULL /\ parseError # NULL /\ validationErrors = <<>>

\* a text that parses, typed or loaded after one that did not
C14_WitnessRecovered ==
    /\ pc = "idle" /\ Len(history) >= 2
    /\ history[Len(history) - 1].parsed = NULL
    /\ LastRun.xml = xmlContent
    /\ parsedProblem # NULL /\ parseError = NULL /\ validationErrors # <<>>

====
